---- MODULE Spec2Model ----
(***************************************************************************)
(* Model of counter.py: the visit counter handler (lambda_handler) and the *)
(* key-value table it updates.                                             *)
(*                                                                         *)
(* Python values are tagged records.  A Python str is a sequence of        *)
(* chunks (short TLA+ strings); the empty str is the empty sequence and    *)
(* concatenation is \o.  JSON text is a str whose chunks are the JSON      *)
(* punctuation, the quote chunk, digits, null and the string contents, so  *)
(* json.loads and json.dumps are computed chunk by chunk.                  *)
(***************************************************************************)
EXTENDS Integers, Sequences, FiniteSets, TLC

(* ---------------------------- bounds ----------------------------------- *)
\* number of invocations of the handler in one behaviour
MaxInvocations == 2
\* the visit_count of the records that exist before the first invocation
MaxPrevCount == 1

(* ------------------------- Python values ------------------------------- *)
PyNone == [type |-> "NoneType"]
PyStr(chunks) == [type |-> "str", s |-> chunks]
PyInt(n) == [type |-> "int", n |-> n]
PyList(xs) == [type |-> "list", xs |-> xs]
PyDict(items) == [type |-> "dict", items |-> items]
Decimal(digits) == [type |-> "Decimal", digits |-> digits]

Lit(c) == PyStr(<<c>>)
Item(k, v) == [k |-> k, v |-> v]

isinstance(v, t) == v.type = t

\* variant: the test "path is None" in place of "not path"
Falsy_onlyNone(v) == v.type = "NoneType"

\* truth value of a Python object, as tested by "not path"
Falsy(v) ==
    CASE v.type = "NoneType" -> TRUE
      [] v.type = "str" -> Len(v.s) = 0
      [] v.type = "int" -> v.n = 0
      [] v.type = "list" -> Len(v.xs) = 0
      [] v.type = "dict" -> Len(v.items) = 0
      [] OTHER -> FALSE

\* variant: get(key) called without its default
dict_get_nodefault(d, key, default) ==
    IF \E i \in 1..Len(d.items) : d.items[i].k = key
    THEN d.items[CHOOSE i \in 1..Len(d.items) : d.items[i].k = key].v
    ELSE PyNone

\* dict.get(key, default); keys are chunk sequences
dict_get(d, key, default) ==
    IF \E i \in 1..Len(d.items) : d.items[i].k = key
    THEN d.items[CHOOSE i \in 1..Len(d.items) : d.items[i].k = key].v
    ELSE default

\* d[key] = v: replaces the value of an existing key, else appends
dict_set(items, key, v) ==
    IF \E i \in 1..Len(items) : items[i].k = key
    THEN [i \in 1..Len(items) |-> IF items[i].k = key THEN Item(key, v) ELSE items[i]]
    ELSE Append(items, Item(key, v))

(* ----------------------------- numbers --------------------------------- *)
DigitChr == <<"0", "1", "2", "3", "4", "5", "6", "7", "8", "9">>
IsDigit(c) == \E d \in 1..10 : DigitChr[d] = c
DigitVal(c) == (CHOOSE d \in 1..10 : DigitChr[d] = c) - 1

RECURSIVE IntToDigits(_)
IntToDigits(n) ==
    IF n < 10 THEN <<DigitChr[n + 1]>>
    ELSE Append(IntToDigits(n \div 10), DigitChr[(n % 10) + 1])

RECURSIVE DigitsToInt(_)
DigitsToInt(ds) ==
    IF Len(ds) = 0 THEN 0
    ELSE 10 * DigitsToInt(SubSeq(ds, 1, Len(ds) - 1)) + DigitVal(ds[Len(ds)])

\* int(x) for the Decimal the table resource returns
int(x) ==
    IF x.type = "Decimal" THEN PyInt(DigitsToInt(x.digits)) ELSE x

(* ------------------------------ JSON ----------------------------------- *)
Quote == "\""
EOF == "<eof>"
At(s, i) == IF i >= 1 /\ i <= Len(s) THEN s[i] ELSE EOF
IsColon(c) == c \in {":", ": "}
IsComma(c) == c \in {",", ", "}
Fail == [ok |-> FALSE]
Parsed(v, next) == [ok |-> TRUE, val |-> v, next |-> next]

\* a string literal starting at the quote s[i]; val is the chunk sequence
ParseString(s, i) ==
    IF At(s, i) = Quote /\ \E j \in (i + 1)..Len(s) : s[j] = Quote
    THEN LET j == CHOOSE j \in (i + 1)..Len(s) :
                      /\ s[j] = Quote
                      /\ \A k \in (i + 1)..(j - 1) : s[k] # Quote
         IN Parsed(SubSeq(s, i + 1, j - 1), j + 1)
    ELSE Fail

\* the run of digits starting at s[i]
ParseNumber(s, i) ==
    LET j == CHOOSE j \in i..Len(s) :
                 /\ \A k \in i..j : IsDigit(s[k])
                 /\ ~IsDigit(At(s, j + 1))
    IN Parsed(PyInt(DigitsToInt(SubSeq(s, i, j))), j + 1)

RECURSIVE ParseValue(_, _), ParseMembers(_, _, _), ParseElements(_, _, _)
ParseValue(s, i) ==
    LET c == At(s, i) IN
    CASE c = Quote ->
            LET r == ParseString(s, i)
            IN IF r.ok THEN Parsed(PyStr(r.val), r.next) ELSE Fail
      [] c = "null" -> Parsed(PyNone, i + 1)
      [] IsDigit(c) -> ParseNumber(s, i)
      [] c = "[" ->
            IF At(s, i + 1) = "]" THEN Parsed(PyList(<<>>), i + 2)
            ELSE ParseElements(s, i + 1, <<>>)
      [] c = "{" ->
            IF At(s, i + 1) = "}" THEN Parsed(PyDict(<<>>), i + 2)
            ELSE ParseMembers(s, i + 1, <<>>)
      [] OTHER -> Fail

ParseMembers(s, i, items) ==
    LET k == ParseString(s, i) IN
    IF ~k.ok \/ ~IsColon(At(s, k.next)) THEN Fail
    ELSE LET v == ParseValue(s, k.next + 1) IN
         IF ~v.ok THEN Fail
         ELSE LET items2 == dict_set(items, k.val, v.val) IN
              CASE At(s, v.next) = "}" -> Parsed(PyDict(items2), v.next + 1)
                [] IsComma(At(s, v.next)) -> ParseMembers(s, v.next + 1, items2)
                [] OTHER -> Fail

ParseElements(s, i, xs) ==
    LET v == ParseValue(s, i) IN
    IF ~v.ok THEN Fail
    ELSE CASE At(s, v.next) = "]" -> Parsed(PyList(Append(xs, v.val)), v.next + 1)
           [] IsComma(At(s, v.next)) -> ParseElements(s, v.next + 1, Append(xs, v.val))
           [] OTHER -> Fail

\* json.loads(text): the decoded value, or JSONDecodeError
json_loads(s) ==
    LET r == ParseValue(s, 1) IN
    IF r.ok /\ r.next = Len(s) + 1
    THEN [ok |-> TRUE, val |-> r.val]
    ELSE [ok |-> FALSE, exc |-> [cls |-> "JSONDecodeError"]]

\* json.dumps(value) with the default separators ", " and ": "
RECURSIVE json_dumps(_)
json_dumps(v) ==
    LET RECURSIVE Members(_, _)
        Members(items, i) ==
            IF i > Len(items) THEN <<>>
            ELSE (IF i > 1 THEN <<", ">> ELSE <<>>)
                 \o <<Quote>> \o items[i].k \o <<Quote, ": ">>
                 \o json_dumps(items[i].v) \o Members(items, i + 1)
        RECURSIVE Elements(_, _)
        Elements(xs, i) ==
            IF i > Len(xs) THEN <<>>
            ELSE (IF i > 1 THEN <<", ">> ELSE <<>>)
                 \o json_dumps(xs[i]) \o Elements(xs, i + 1)
    IN CASE v.type = "str" -> <<Quote>> \o v.s \o <<Quote>>
         [] v.type = "int" -> IntToDigits(v.n)
         [] v.type = "NoneType" -> <<"null">>
         [] v.type = "list" -> <<"[">> \o Elements(v.xs, 1) \o <<"]">>
         [] v.type = "dict" -> <<"{">> \o Members(v.items, 1) \o <<"}">>

(* --------------------------- exceptions -------------------------------- *)
ClientError(code, operation_name, msg) ==
    [cls |-> "ClientError", code |-> code, operation_name |-> operation_name, msg |-> msg]
Exception(msg) == [cls |-> "Exception", msg |-> msg]
AttributeError(typename, attr) ==
    [cls |-> "AttributeError", typename |-> typename, attr |-> attr]

\* str(e), the text placed in the error field
str(e) ==
    CASE e.cls = "ClientError" ->
            PyStr(<<"An error occurred (", e.code, ") when calling the ",
                    e.operation_name, " operation: ", e.msg>>)
      [] e.cls = "AttributeError" ->
            PyStr(<<"'", e.typename, "' object has no attribute '", e.attr, "'">>)
      [] OTHER -> PyStr(<<e.msg>>)

\* the failures update_item is made to raise
StoreErrors ==
    { ClientError("500", "UpdateItem", "DynamoDB error"),
      Exception("Unexpected error") }

(* ------------------------------ table ---------------------------------- *)
\* variant: the counter of a new record starts at 1
UpdateItemArgs_start1(path) ==
    [ Key |-> [path |-> path],
      UpdateExpression |-> "SET visit_count = if_not_exists(visit_count, :start) + :inc",
      ExpressionAttributeValues |-> [inc |-> 1, start |-> 1],
      ReturnValues |-> "UPDATED_NEW" ]

\* the arguments of the one update_item call the handler issues
UpdateItemArgs(path) ==
    [ Key |-> [path |-> path],
      UpdateExpression |-> "SET visit_count = if_not_exists(visit_count, :start) + :inc",
      ExpressionAttributeValues |-> [inc |-> 1, start |-> 0],
      ReturnValues |-> "UPDATED_NEW" ]

\* variant: the expression "SET visit_count = :start + :inc"
if_not_exists_ignored(item, attr, dflt) == dflt

\* if_not_exists(attr, dflt) of the update expression, evaluated on an item
if_not_exists(item, attr, dflt) ==
    IF attr \in DOMAIN item THEN item[attr] ELSE dflt

\* variant: the call writes a whole new table holding only the keyed item
update_item_replace(tbl, args) ==
    LET key == args.Key.path.s
        old == IF key \in DOMAIN tbl THEN tbl[key] ELSE [path |-> key]
        val == if_not_exists(old, "visit_count", args.ExpressionAttributeValues.start)
                   + args.ExpressionAttributeValues.inc
    IN [ table |-> [k \in {key} |-> [path |-> key, visit_count |-> val]],
         response |-> [Attributes |-> [visit_count |-> Decimal(IntToDigits(val))]] ]

\* the table's execution of the call: one atomic upsert of the keyed item.
\* Yields the new table and the response with the updated attribute.
update_item(tbl, args) ==
    LET key == args.Key.path.s
        old == IF key \in DOMAIN tbl THEN tbl[key] ELSE [path |-> key]
        val == if_not_exists(old, "visit_count", args.ExpressionAttributeValues.start)
                   + args.ExpressionAttributeValues.inc
        new == [a \in DOMAIN old \cup {"visit_count"} |->
                    IF a = "visit_count" THEN val ELSE old[a]]
    IN [ table |-> [k \in DOMAIN tbl \cup {key} |-> IF k = key THEN new ELSE tbl[k]],
         response |-> [Attributes |-> [visit_count |-> Decimal(IntToDigits(val))]] ]

(* ----------------------------- handler --------------------------------- *)
NoResult == [kind |-> "none"]
Return(value) == [kind |-> "return", value |-> value]
Raise(exc) == [kind |-> "raise", exc |-> exc]

ErrorResponse(status, message) ==
    PyDict(<< Item(<<"statusCode">>, PyInt(status)),
              Item(<<"body">>,
                   PyStr(json_dumps(PyDict(<<Item(<<"error">>, message)>>)))) >>)

\* lines 31-43: the success response built from the table's answer
SuccessResponse(path, response) ==
    PyDict(<< Item(<<"statusCode">>, PyInt(200)),
              Item(<<"headers">>,
                   PyDict(<< Item(<<"Access-Control-Allow-Origin">>, Lit("*")),
                             Item(<<"Content-Type">>, Lit("application/json")) >>)),
              Item(<<"body">>,
                   PyStr(json_dumps(PyDict(
                       << Item(<<"path">>, path),
                          Item(<<"visit_count">>,
                               int(response.Attributes.visit_count)) >>)))) >>)

\* variant: the handler hides the cause of the failure
OnException_generic(e) ==
    Return(ErrorResponse(500, Lit("Internal server error")))

\* lines 45-48: both except clauses build the same response
OnException(e) ==
    IF e.cls = "ClientError"
    THEN Return(ErrorResponse(500, str(e)))
    ELSE Return(ErrorResponse(500, str(e)))

\* the handler's local state after lines 10-23 and, when it gets that
\* far, after issuing the call of lines 24-29
Finished(result) ==
    [pc |-> "done", path |-> PyNone, calls |-> <<>>, answer |-> NoResult,
     result |-> result]
Calling(path) ==
    [pc |-> "update_item", path |-> path, calls |-> <<UpdateItemArgs(path)>>,
     answer |-> NoResult, result |-> NoResult]

\* variant: the root path is not rewritten
Normalize_identity(path) == path

\* lines 22-23: the root path is counted as the index page
Normalize(path) ==
    IF path = Lit("/") THEN Lit("/index.html") ELSE path

Receive(event) ==
    LET body0 == dict_get(event, <<"body">>, PyStr(<<"{", "}">>))
        loaded == IF isinstance(body0, "str") THEN json_loads(body0.s)
                  ELSE [ok |-> TRUE, val |-> body0]
    IN IF ~loaded.ok THEN Finished(Raise(loaded.exc))
       ELSE LET body == loaded.val IN
            IF ~isinstance(body, "dict")
            THEN Finished(OnException(AttributeError(body.type, "get")))
            ELSE LET path == dict_get(body, <<"path">>, Lit("/")) IN
                 IF Falsy(path)
                 THEN Finished(Return(ErrorResponse(400, Lit("Missing path parameter"))))
                 ELSE Calling(Normalize(path))

(* ----------------------------- requests -------------------------------- *)
\* body contents sent as a JSON string
EncodedMappings ==
    { PyDict(<<>>),
      PyDict(<<Item(<<"path">>, PyStr(<<>>))>>),
      PyDict(<<Item(<<"path">>, Lit("/about"))>>) }

\* body contents sent as an already decoded mapping
DecodedMappings ==
    { PyDict(<<Item(<<"path">>, Lit("/"))>>),
      PyDict(<<Item(<<"path">>, PyStr(<<>>))>>),
      PyDict(<<Item(<<"path">>, PyNone)>>),
      PyDict(<<Item(<<"path">>, Lit("/about"))>>),
      PyDict(<<Item(<<"ref">>, Lit("/")), Item(<<"path">>, Lit("/index.html"))>>) }

\* body strings that are not the encoding of a mapping
Texts ==
    { <<"{", Quote, "path", Quote, ":">>,
      <<>>,
      <<"[", "]">>,
      <<"null">> }

Requests ==
    {[form |-> "absent", arg |-> PyDict(<<>>)]}
    \cup {[form |-> "json", arg |-> m] : m \in EncodedMappings}
    \cup {[form |-> "mapping", arg |-> m] : m \in DecodedMappings}
    \cup {[form |-> "text", arg |-> PyStr(t)] : t \in Texts}
    \cup {[form |-> "other", arg |-> PyNone]}

\* the event a caller builds for a request
MakeEvent(req) ==
    CASE req.form = "absent" -> PyDict(<<>>)
      [] req.form = "json" -> PyDict(<<Item(<<"body">>, PyStr(json_dumps(req.arg)))>>)
      [] OTHER -> PyDict(<<Item(<<"body">>, req.arg)>>)

(* ------------------------------ state ---------------------------------- *)
\* table: the visitor-counts table, key -> item
\* prev:  the table as it was before the first invocation
\* inv:   the invocations, in order of arrival
VARIABLES table, prev, inv

vars == <<table, prev, inv>>

StoredPaths == {<<"/index.html">>, <<"/about">>}

InitialTables ==
    UNION { [ks -> {MaxPrevCount}] : ks \in SUBSET StoredPaths }

Init ==
    /\ \E counts \in InitialTables :
           table = [k \in DOMAIN counts |-> [path |-> k, visit_count |-> counts[k]]]
    /\ prev = table
    /\ inv = <<>>

\* an invocation arrives and runs up to its call of update_item
Invoke(req) ==
    /\ Len(inv) < MaxInvocations
    /\ inv' = Append(inv, [req |-> req] @@ Receive(MakeEvent(req)))
    /\ UNCHANGED <<table, prev>>

\* the table executes the call and the handler returns its response
UpdateItemReturns(i) ==
    /\ inv[i].pc = "update_item"
    /\ LET r == update_item(table, inv[i].calls[1]) IN
       /\ table' = r.table
       /\ inv' = [inv EXCEPT ![i].pc = "done",
                             ![i].answer = Return(r.response),
                             ![i].result = Return(SuccessResponse(inv[i].path, r.response))]
    /\ UNCHANGED prev

\* variant: the update is applied although the call raises
UpdateItemRaises_applied(i, e) ==
    /\ inv[i].pc = "update_item"
    /\ table' = update_item(table, inv[i].calls[1]).table
    /\ inv' = [inv EXCEPT ![i].pc = "done",
                          ![i].answer = Raise(e),
                          ![i].result = OnException(e)]
    /\ UNCHANGED prev

\* the call raises and the handler returns its response
UpdateItemRaises(i, e) ==
    /\ inv[i].pc = "update_item"
    /\ inv' = [inv EXCEPT ![i].pc = "done",
                          ![i].answer = Raise(e),
                          ![i].result = OnException(e)]
    /\ UNCHANGED <<table, prev>>

Next ==
    \/ \E req \in Requests : Invoke(req)
    \/ \E i \in 1..Len(inv) : UpdateItemReturns(i)
    \/ \E i \in 1..Len(inv), e \in StoreErrors : UpdateItemRaises(i, e)

Spec == Init /\ [][Next]_vars

(* ------------------- observations used by the properties --------------- *)
\* observations of one invocation record r
IsDone(r) == r.pc = "done"
HasReturned(r) == IsDone(r) /\ r.result.kind = "return"
StatusIs(r, code) ==
    HasReturned(r) /\ dict_get(r.result.value, <<"statusCode">>, PyNone) = PyInt(code)
\* the response body, decoded as a client decodes it
BodyOf(r) == json_loads(dict_get(r.result.value, <<"body">>, PyStr(<<>>)).s)
FieldOf(r, name) == dict_get(BodyOf(r).val, <<name>>, PyNone)

\* the same, of the i-th invocation
Invocations == 1..Len(inv)
Done(i) == IsDone(inv[i])
Returned(i) == HasReturned(inv[i])
Response(i) == inv[i].result.value
StatusCode(i) == dict_get(Response(i), <<"statusCode">>, PyNone)
HasStatus(i, code) == StatusIs(inv[i], code)
Succeeded(i) == HasStatus(i, 200)
Failed(i) == HasStatus(i, 400) \/ HasStatus(i, 500)
Body(i) == BodyOf(inv[i])
BodyField(i, name) == FieldOf(inv[i], name)
\* the count and the path reported by a status-200 response
ReportedCount(i) == BodyField(i, "visit_count").n
ReportedPath(i) == BodyField(i, "path")

Range(seq) == {seq[k] : k \in 1..Len(seq)}

\* the request carries a mapping (absent body: the empty mapping)
CarriesMapping(req) == req.form \in {"absent", "json", "mapping"}
\* the path field of the request's mapping, read off the request itself
SuppliedPath(req) ==
    LET its == req.arg.items
    IN IF \E k \in 1..Len(its) : its[k].k = <<"path">>
       THEN {its[k].v : k \in {n \in 1..Len(its) : its[n].k = <<"path">>}}
       ELSE {}
\* the key the specification prescribes for a request
ExpectedKey(req) ==
    IF SuppliedPath(req) = {} \/ SuppliedPath(req) = {Lit("/")}
    THEN Lit("/index.html")
    ELSE CHOOSE v \in SuppliedPath(req) : TRUE
HasValidPath(req) ==
    /\ CarriesMapping(req)
    /\ \A v \in SuppliedPath(req) : v.type = "str" /\ Len(v.s) > 0
HasEmptyPath(req) ==
    /\ req.form \in {"json", "mapping"}
    /\ SuppliedPath(req) = {PyStr(<<>>)}

CountOf(tbl, p) == IF p \in DOMAIN tbl THEN tbl[p].visit_count ELSE 0
KnownPaths ==
    DOMAIN table \cup DOMAIN prev
        \cup {ExpectedKey(inv[i].req).s : i \in {n \in Invocations : HasValidPath(inv[n].req)}}
SucceededIn(invs, p) ==
    {i \in 1..Len(invs) : /\ StatusIs(invs[i], 200)
                          /\ HasValidPath(invs[i].req)
                          /\ ExpectedKey(invs[i].req).s = p}
SucceededOn(p) == SucceededIn(inv, p)

(* ------------------------------ claims --------------------------------- *)

\* C1: for every path, the counts reported by the status-200 invocations on
\* that path are exactly the consecutive integers that follow the path's
\* previous count, each reported once: no duplicates and no gaps.
C1_ConsecutiveCounts ==
    LET ok == {n \in Invocations : Succeeded(n)}
        body == [i \in ok |-> Body(i).val]
        path == [i \in ok |-> dict_get(body[i], <<"path">>, PyNone).s]
        count == [i \in ok |-> dict_get(body[i], <<"visit_count">>, PyNone).n]
    IN \A p \in {path[i] : i \in ok} :
           LET S == {i \in ok : path[i] = p}
               base == CountOf(prev, p)
           IN /\ {count[i] : i \in S} = (base + 1)..(base + Cardinality(S))
              /\ \A i, j \in S : i # j => count[i] # count[j]

\* two invocations were in flight together on a fresh path (the one that
\* arrived second was answered first) and reported 2 and 1
C1_Witness ==
    \E i, j \in Invocations :
        /\ i < j /\ Succeeded(i) /\ Succeeded(j)
        /\ ReportedPath(i) = ReportedPath(j)
        /\ ReportedPath(i).s \notin DOMAIN prev
        /\ ReportedCount(j) = 1 /\ ReportedCount(i) = 2

\* the stored count is the previous count plus the successes on the path
C2_CountEqualsSuccesses ==
    \A p \in KnownPaths :
        /\ CountOf(table, p) \in Nat
        /\ CountOf(table, p) = CountOf(prev, p) + Cardinality(SucceededOn(p))
        /\ p \notin DOMAIN table => SucceededOn(p) = {}

\* a step leaves a count or adds 1, and adds 1 exactly when a success is added
C2_CountNeverDecreases ==
    \A p \in DOMAIN table \cup DOMAIN table' :
        /\ CountOf(table', p) \in {CountOf(table, p), CountOf(table, p) + 1}
        /\ CountOf(table', p) = CountOf(table, p) + 1
              <=> Cardinality(SucceededIn(inv', p)) = Cardinality(SucceededIn(inv, p)) + 1

\* C2: the stored visit_count of every path is a natural number, equals the
\* path's previous count (0 for a record that did not exist) plus the number
\* of status-200 invocations whose normalized path it is, and in every step
\* stays the same or rises by exactly 1.
C2_VisitCount == []C2_CountEqualsSuccesses /\ [][C2_CountNeverDecreases]_vars

\* a record that did not exist was created by one successful invocation
\* while another invocation on the same path failed and left it alone
C2_Witness ==
    \E i, j \in Invocations :
        /\ Succeeded(i) /\ HasStatus(j, 500)
        /\ inv[i].path = inv[j].path
        /\ inv[i].path.s \notin DOMAIN prev
        /\ CountOf(table, inv[i].path.s) = 1

\* C3: every finished invocation has returned a response object with an
\* integer statusCode and a JSON body; none has ended in a raw exception.
C3_AlwaysResponse ==
    \A i \in Invocations :
        Done(i) => /\ Returned(i)
                   /\ StatusCode(i).type = "int"
                   /\ Body(i).ok

\* C4: a status-200 invocation has issued exactly one update_item call, keyed
\* by its normalized path and starting at 0 and adding 1; a status-400
\* invocation has issued none.
C4_CallsPerStatus ==
    \A i \in Invocations :
        /\ Succeeded(i) =>
              inv[i].calls =
                  << [ Key |-> [path |-> ExpectedKey(inv[i].req)],
                       UpdateExpression |->
                           "SET visit_count = if_not_exists(visit_count, :start) + :inc",
                       ExpressionAttributeValues |-> [inc |-> 1, start |-> 0],
                       ReturnValues |-> "UPDATED_NEW" ] >>
        /\ HasStatus(i, 400) => inv[i].calls = <<>>

\* one invocation returned 200 after its single call, another returned 400
\* without calling
C4_Witness ==
    \E i, j \in Invocations :
        /\ Succeeded(i) /\ Len(inv[i].calls) = 1
        /\ HasStatus(j, 400) /\ Len(inv[j].calls) = 0

\* the response to a request whose path field is the empty string
C5_EmptyPathRejected ==
    \A i \in Invocations :
        HasEmptyPath(inv[i].req) =>
            /\ HasStatus(i, 400)
            /\ Body(i) = [ok |-> TRUE,
                          val |-> PyDict(<<Item(<<"error">>, Lit("Missing path parameter"))>>)]
            /\ inv[i].calls = <<>>
            /\ inv[i].answer = NoResult

\* the step of such a request leaves the table as it was
C5_TableUntouched ==
    (Len(inv') > Len(inv) /\ HasEmptyPath(inv'[Len(inv')].req)) => table' = table

\* C5: a request whose path field is the empty string, sent as a JSON string
\* or as a mapping, gets status 400 with the body
\* {"error": "Missing path parameter"}, issues no call, and leaves the table
\* as it was.
C5_EmptyPath == []C5_EmptyPathRejected /\ [][C5_TableUntouched]_vars

\* the empty path was sent both ways, both got 400, and the records that
\* existed are as they were
C5_Witness ==
    \E i, j \in Invocations :
        /\ HasEmptyPath(inv[i].req) /\ inv[i].req.form = "json"
        /\ HasEmptyPath(inv[j].req) /\ inv[j].req.form = "mapping"
        /\ HasStatus(i, 400) /\ HasStatus(j, 400)
        /\ table = prev /\ DOMAIN table # {}

\* C6: an invocation whose update_item call raised returns status 500 with a
\* JSON body whose error field carries the message of the failure, and no
\* invocation issues more than one update_item call.
C6_StoreFailure ==
    \A i \in Invocations :
        /\ Len(inv[i].calls) <= 1
        /\ inv[i].answer.kind = "raise" =>
              /\ HasValidPath(inv[i].req)
              /\ HasStatus(i, 500)
              /\ Len(inv[i].calls) = 1
              /\ LET body == Body(i) IN
                 /\ body.ok
                 /\ LET error == dict_get(body.val, <<"error">>, PyNone) IN
                    /\ error.type = "str"
                    /\ inv[i].answer.exc.msg \in Range(error.s)

\* the call raised a ClientError for one invocation and another exception
\* for a second one; both returned 500
C6_Witness ==
    \E i, j \in Invocations :
        /\ inv[i].answer.kind = "raise" /\ inv[i].answer.exc.cls = "ClientError"
        /\ inv[j].answer.kind = "raise" /\ inv[j].answer.exc.cls = "Exception"
        /\ HasStatus(i, 500) /\ HasStatus(j, 500)

\* the content of a status-200 response
C7_SuccessResponse ==
    \A i \in Invocations :
        Succeeded(i) =>
            /\ dict_get(Response(i), <<"headers">>, PyNone) =
                   PyDict(<< Item(<<"Access-Control-Allow-Origin">>, Lit("*")),
                             Item(<<"Content-Type">>, Lit("application/json")) >>)
            /\ inv[i].answer.kind = "return"
            /\ Len(inv[i].calls) = 1
            /\ LET body == Body(i) IN
               /\ body.ok
               /\ LET path == dict_get(body.val, <<"path">>, PyNone)
                      count == dict_get(body.val, <<"visit_count">>, PyNone)
                  IN /\ path = ExpectedKey(inv[i].req)
                     /\ path = inv[i].calls[1].Key.path
                     /\ count.type = "int"
                     /\ IntToDigits(count.n) =
                            inv[i].answer.value.Attributes.visit_count.digits

\* the answer of the table is the count it stores for the key of the call
C7_AnswerIsStoredCount ==
    \A i \in Invocations :
        (~Done(i) /\ inv'[i].answer.kind = "return") =>
            /\ inv'[i].calls = inv[i].calls
            /\ inv'[i].answer.value.Attributes.visit_count.digits
                   = IntToDigits(CountOf(table', inv[i].calls[1].Key.path.s))
            /\ CountOf(table', inv[i].calls[1].Key.path.s)
                   = CountOf(table, inv[i].calls[1].Key.path.s) + 1

\* C7: a status-200 response has the two headers, its path is the key that
\* was incremented (/index.html when the path field is absent or "/", the
\* supplied path otherwise), and its visit_count is the integer the table
\* returned, which is the count stored for that key by the update.
C7_Success == []C7_SuccessResponse /\ [][C7_AnswerIsStoredCount]_vars

\* "/" was counted on /index.html and /about on itself, the latter on top
\* of an existing record
C7_Witness ==
    \E i, j \in Invocations :
        /\ Succeeded(i) /\ SuppliedPath(inv[i].req) = {Lit("/")}
        /\ ReportedPath(i) = Lit("/index.html")
        /\ Succeeded(j) /\ SuppliedPath(inv[j].req) = {Lit("/about")}
        /\ ReportedPath(j) = Lit("/about")
        /\ ReportedCount(j) = 2

\* two requests carry the same mapping
SameContent(r1, r2) == CarriesMapping(r1) /\ CarriesMapping(r2) /\ r1.arg = r2.arg

\* C8: requests that carry the same mapping in different forms (absent body
\* for the empty mapping, JSON string, decoded mapping) issue the same call,
\* get the same response for the same answer of the table and, from the same
\* table, make the same update; a request with no path or with "/" is
\* counted on /index.html.
C8_FormsEquivalent ==
    /\ \A i, j \in Invocations :
          SameContent(inv[i].req, inv[j].req) =>
              /\ inv[i].path = inv[j].path
              /\ inv[i].calls = inv[j].calls
              /\ inv[i].answer = inv[j].answer => inv[i].result = inv[j].result
              /\ (inv[i].pc = "update_item" /\ inv[j].pc = "update_item") =>
                    LET ri == update_item(table, inv[i].calls[1])
                        rj == update_item(table, inv[j].calls[1])
                    IN /\ ri = rj
                       /\ SuccessResponse(inv[i].path, ri.response)
                              = SuccessResponse(inv[j].path, rj.response)
    /\ \A i \in Invocations :
          (CarriesMapping(inv[i].req)
             /\ inv[i].req.arg \in {PyDict(<<>>), PyDict(<<Item(<<"path">>, Lit("/"))>>)}) =>
              /\ Len(inv[i].calls) = 1
              /\ inv[i].calls[1].Key.path = Lit("/index.html")
              /\ Succeeded(i) => /\ ReportedPath(i) = Lit("/index.html")
                                 /\ <<"/index.html">> \in DOMAIN table

\* an absent body and the body "{}" both succeeded and both incremented the
\* /index.html record
C8_Witness ==
    \E i, j \in Invocations :
        /\ inv[i].req.form = "absent" /\ inv[j].req.form = "json"
        /\ SameContent(inv[i].req, inv[j].req)
        /\ Succeeded(i) /\ Succeeded(j)
        /\ CountOf(table, <<"/index.html">>) = CountOf(prev, <<"/index.html">>) + 2

\* a failed invocation got no successful answer from the table
C9_FailedGotNoAnswer ==
    \A i \in Invocations : Failed(i) => inv[i].answer.kind # "return"

\* the table changes only in a step that ends one invocation with status 200
C9_OnlySuccessChangesTable ==
    table' # table =>
        \E i \in Invocations :
            /\ ~Done(i) /\ StatusIs(inv'[i], 200)
            /\ \A j \in Invocations \ {i} : inv'[j] = inv[j]

\* C9: an invocation that returns status 400 or 500 got no successful answer
\* from the table, and the table changes only in a step in which one
\* invocation finishes with status 200.
C9_NoIncrementOnError == []C9_FailedGotNoAnswer /\ [][C9_OnlySuccessChangesTable]_vars

\* one invocation failed with 500 on an existing record, another with 400,
\* and the table is as it was
C9_Witness ==
    \E i, j \in Invocations :
        /\ HasStatus(i, 500) /\ inv[i].answer.kind = "raise"
        /\ HasStatus(j, 400)
        /\ table = prev /\ inv[i].path.s \in DOMAIN table

\* the keys whose record a step creates, deletes or changes
Changed ==
    {p \in DOMAIN table \cup DOMAIN table' :
        \/ p \notin DOMAIN table
        \/ p \notin DOMAIN table'
        \/ table'[p] # table[p]}

\* the effect of one step on the table
C10_OnlyOwnRecord ==
    /\ DOMAIN table \subseteq DOMAIN table'
    /\ Cardinality(Changed) <= 1
    /\ \A p \in Changed :
          /\ table'[p] = [path |-> p, visit_count |-> CountOf(table, p) + 1]
          /\ \E i \in Invocations :
                /\ ~Done(i) /\ IsDone(inv'[i])
                /\ HasValidPath(inv[i].req)
                /\ ExpectedKey(inv[i].req).s = p

\* C10: a step changes at most one record, the one keyed by the normalized
\* path of the invocation that finishes in it, to its old count plus 1 (0 plus
\* 1 for a new record); no record is deleted.
C10_Frame == [][C10_OnlyOwnRecord]_vars

\* of two existing records, a successful invocation incremented one and the
\* other is as it was
C10_Witness ==
    \E p, q \in DOMAIN prev :
        /\ p # q
        /\ table[p].visit_count = prev[p].visit_count + 1
        /\ table[q] = prev[q]
        /\ \E i \in Invocations : Succeeded(i) /\ ReportedPath(i).s = p

====
